---- MODULE Spec2Model ----
(***************************************************************************)
(* Model of src/app.py: the Meeting Catalyst agent.                        *)
(*                                                                         *)
(* The program is a Flask service.  One request is modelled at a time:     *)
(*   - POST /trigger-agent, which runs run_catalyst_for_user step by step, *)
(*     one action per upstream call (vault, calendar, drive, wiki,         *)
(*     summarization, chat);                                               *)
(*   - POST /validate-session;                                             *)
(*   - a direct call of send_slack_message.                                *)
(* Every upstream vendor answer is a nondeterministic input of the action  *)
(* that makes the call.  `log` records every upstream call that was        *)
(* attempted, in order, with its arguments.                                *)
(*                                                                         *)
(* Python values: None is the string "None"; a str that the code slices or *)
(* joins is a sequence of one-character strings; a dict with optional keys *)
(* is a record with a has<Key> flag per optional key.                      *)
(***************************************************************************)
EXTENDS Integers, Sequences, FiniteSets, TLC

VARIABLES
    pc,                \* position in the request being served
    op,                \* the request: "none", "trigger", "run", "validate", "send_slack_message"
    login_id,          \* loginId of the trigger request
    tokens,            \* run_catalyst_for_user: tokens
    meetings,          \* run_catalyst_for_user: meetings
    title,             \* run_catalyst_for_user: title
    attendees,         \* run_catalyst_for_user: attendees
    search_query,      \* run_catalyst_for_user: search_query
    drive_content,     \* run_catalyst_for_user: drive_content
    notion_content,    \* run_catalyst_for_user: notion_content
    all_context_docs,  \* run_catalyst_for_user: all_context_docs
    briefing,          \* run_catalyst_for_user: briefing
    slack_user_id,     \* user id handed to (or withheld from) send_slack_message
    session_token,     \* validate_session: session_token
    log,               \* upstream calls attempted so far, in order
    outcome,           \* how the request ended
    raisedIn,          \* the function an uncaught exception left, or ""
    http               \* the HTTP response of the request

vars == <<pc, op, login_id, tokens, meetings, title, attendees, search_query,
          drive_content, notion_content, all_context_docs, briefing,
          slack_user_id, session_token, log, outcome, raisedIn, http>>

(* ---------------------------- bounds ---------------------------------- *)
MaxProviders == 3
MaxMeetings == 2
MaxFiles == 2
MaxPages == 2

SeqsUpTo(S, n) == UNION {[1..k -> S] : k \in 0..n}

(* ------------------------- Python values ------------------------------ *)
None == "None"

\* Python truthiness of a str-or-None value.
Truthy(x) == x # None /\ x # ""

Sentinel == "Error: Could not generate briefing."

NoTitle == <<"N", "o", " ", "T", "i", "t", "l", "e">>
Untitled == <<"U", "n", "t", "i", "t", "l", "e", "d">>

\* title.split(' ')[0]
FirstToken(s) ==
    LET sp == {i \in 1..Len(s) : s[i] = " "}
    IN  IF sp = {} THEN s
        ELSE SubSeq(s, 1, (CHOOSE i \in sp : \A j \in sp : i <= j) - 1)

\* content.decode('utf-8', errors='ignore'): undecodable bytes are dropped.
Decode(bytes) == SelectSeq(bytes, LAMBDA b : b # "xFF")

Count(ep) == Cardinality({i \in 1..Len(log) : log[i].ep = ep})

(* ------------------------ get_tokens_for_user ------------------------- *)
EmptyDict == [p \in {} |-> None]

\* The provider items the vault may list.  item['accessToken'] is read with
\* a subscript (hasAccessToken = FALSE raises KeyError), providerUserId
\* with .get (None when absent).
VaultItems ==
    { [provider |-> "google", hasAccessToken |-> TRUE,  accessToken |-> "tok", providerUserId |-> "U1"],
      [provider |-> "notion", hasAccessToken |-> TRUE,  accessToken |-> "tok", providerUserId |-> None],
      [provider |-> "slack",  hasAccessToken |-> TRUE,  accessToken |-> "tok", providerUserId |-> "U1"],
      [provider |-> "slack",  hasAccessToken |-> TRUE,  accessToken |-> "",    providerUserId |-> "U1"],
      [provider |-> "slack",  hasAccessToken |-> TRUE,  accessToken |-> "tok", providerUserId |-> None],
      [provider |-> "slack",  hasAccessToken |-> FALSE, accessToken |-> None,  providerUserId |-> "U1"] }

\* What requests.get(vault url) can produce.
VaultOutcomes ==
    { [kind |-> "exception", hasProviders |-> FALSE, providers |-> <<>>],
      [kind |-> "non200",    hasProviders |-> FALSE, providers |-> <<>>],
      [kind |-> "ok",        hasProviders |-> FALSE, providers |-> <<>>] }
    \cup { [kind |-> "ok", hasProviders |-> TRUE, providers |-> ps] :
             ps \in SeqsUpTo(VaultItems, MaxProviders) }

\* The loop of lines 74-79: a later item of a provider overwrites an earlier.
BuildProviderData(items) ==
    LET names == {items[i].provider : i \in 1..Len(items)}
        last(p) == CHOOSE i \in 1..Len(items) :
                       /\ items[i].provider = p
                       /\ \A j \in 1..Len(items) : items[j].provider = p => j <= i
    IN  [p \in names |-> [accessToken |-> items[last(p)].accessToken,
                          userId      |-> items[last(p)].providerUserId]]

\* kind "raise": an exception leaves the function; "None": it returns None;
\* "dict": it returns the mapping d.
GetTokensForUser(v) ==
    IF v.kind = "exception" THEN [kind |-> "raise", d |-> EmptyDict]
    ELSE IF v.kind = "non200" THEN [kind |-> "None", d |-> EmptyDict]
    ELSE IF ~v.hasProviders THEN [kind |-> "raise", d |-> EmptyDict]
    ELSE IF \E i \in 1..Len(v.providers) : ~v.providers[i].hasAccessToken
         THEN [kind |-> "raise", d |-> EmptyDict]
    ELSE [kind |-> "dict", d |-> BuildProviderData(v.providers)]

\* tokens.get(k): the record of provider k, or an absent marker.
DictGet(d, k) ==
    IF k \in DOMAIN d
    THEN [present |-> TRUE, accessToken |-> d[k].accessToken, userId |-> d[k].userId]
    ELSE [present |-> FALSE, accessToken |-> None, userId |-> None]

\* `if not tokens` (line 259): None or an empty dict.
NotTokens(t) == t.kind = "None" \/ (t.kind = "dict" /\ DOMAIN t.d = {})

HasGoogle_Always(t) == TRUE

\* `if not google_token` negated (line 268): a token record is a non-empty dict.
HasGoogle(t) == DictGet(t.d, "google").present

\* `if notion_token` (line 291).
HasNotion(t) == DictGet(t.d, "notion").present

(* ------------------------ get_upcoming_meetings ----------------------- *)
T1 == <<"Q", "3", " ", "P">>
T2 == <<"S", "y", "n", "c">>

Att(e) == [hasEmail |-> TRUE, email |-> e]
AttNoEmail == [hasEmail |-> FALSE, email |-> None]

EventSet ==
    { [hasSummary |-> TRUE,  summary |-> T1, hasAttendees |-> TRUE,  attendees |-> <<Att("a@x"), Att("b@x")>>],
      [hasSummary |-> FALSE, summary |-> <<>>, hasAttendees |-> FALSE, attendees |-> <<>>],
      [hasSummary |-> TRUE,  summary |-> T2, hasAttendees |-> TRUE,  attendees |-> <<AttNoEmail>>] }

\* What service.events().list(...).execute() can produce.
CalendarOutcomes ==
    { [kind |-> "exception", hasItems |-> FALSE, items |-> <<>>],
      [kind |-> "ok",        hasItems |-> FALSE, items |-> <<>>] }
    \cup { [kind |-> "ok", hasItems |-> TRUE, items |-> ms] :
             ms \in SeqsUpTo(EventSet, MaxMeetings) }

GetUpcomingMeetings(c) ==
    IF c.kind = "exception" THEN <<>>
    ELSE IF c.hasItems THEN c.items ELSE <<>>

NextMeeting_Last(ms) == ms[Len(ms)]

\* meetings[0] (line 278).
NextMeeting(ms) == ms[1]

\* next_meeting.get('summary', 'No Title') (line 279).
EventTitle(e) == IF e.hasSummary THEN e.summary ELSE NoTitle

\* [attendee.get('email') for attendee in next_meeting.get('attendees', [])]
EventAttendees(e) ==
    IF e.hasAttendees
    THEN [i \in 1..Len(e.attendees) |->
             IF e.attendees[i].hasEmail THEN e.attendees[i].email ELSE None]
    ELSE <<>>

(* --------------------- search_drive_and_get_content ------------------- *)
B1 == <<"a">>
B2 == <<"b", "xFF">>

\* native: 'google-apps' in mimeType; fetchOk: request.execute() returns.
DriveFiles ==
    { [native |-> TRUE,  fetchOk |-> TRUE,  bytes |-> B1],
      [native |-> FALSE, fetchOk |-> TRUE,  bytes |-> B2],
      [native |-> FALSE, fetchOk |-> FALSE, bytes |-> <<>>] }

DriveOutcomes ==
    { [kind |-> "exception", files |-> <<>>] }
    \cup { [kind |-> "ok", files |-> fs] : fs \in SeqsUpTo(DriveFiles, MaxFiles) }

\* Any exception, also one of a content fetch after earlier files were
\* read, returns [] (lines 224-226).
SearchDrive(o) ==
    IF o.kind = "exception" THEN <<>>
    ELSE IF o.files = <<>> THEN <<>>
    ELSE IF \E i \in 1..Len(o.files) : ~o.files[i].fetchOk THEN <<>>
    ELSE [i \in 1..Len(o.files) |-> Decode(o.files[i].bytes)]

(* -------------------- search_notion_and_get_content ------------------- *)
N1 == <<"n", "1">>

\* page.get('properties', {}).get('title', {}).get('title', [{}])[0]
\*     .get('plain_text', 'Untitled')
NotionPages ==
    { [hasProperties |-> TRUE,  hasTitleProp |-> TRUE,  hasTitleList |-> TRUE,
       titleList |-> <<[hasPlain |-> TRUE, plain_text |-> N1]>>],
      [hasProperties |-> FALSE, hasTitleProp |-> FALSE, hasTitleList |-> FALSE,
       titleList |-> <<>>],
      [hasProperties |-> TRUE,  hasTitleProp |-> TRUE,  hasTitleList |-> TRUE,
       titleList |-> <<[hasPlain |-> FALSE, plain_text |-> <<>>]>>],
      [hasProperties |-> TRUE,  hasTitleProp |-> TRUE,  hasTitleList |-> TRUE,
       titleList |-> <<>>] }

NotionOutcomes ==
    { [kind |-> "exception", hasResults |-> FALSE, results |-> <<>>],
      [kind |-> "non200",    hasResults |-> FALSE, results |-> <<>>],
      [kind |-> "ok",        hasResults |-> FALSE, results |-> <<>>] }
    \cup { [kind |-> "ok", hasResults |-> TRUE, results |-> rs] :
             rs \in SeqsUpTo(NotionPages, MaxPages) }

\* The title list the comprehension indexes with [0]: the default [{}]
\* when any level is missing, else the list of the page.
PageTitleList(p) ==
    IF p.hasProperties /\ p.hasTitleProp /\ p.hasTitleList
    THEN p.titleList
    ELSE <<[hasPlain |-> FALSE, plain_text |-> <<>>]>>

PageTitle(p) ==
    LET first == PageTitleList(p)[1]
    IN  IF first.hasPlain THEN first.plain_text ELSE Untitled

\* kind "raise": requests.post raised, or [0] of an empty title list
\* raised IndexError; neither is caught.
SearchNotion(o) ==
    IF o.kind = "exception" THEN [kind |-> "raise", value |-> <<>>]
    ELSE IF o.kind = "non200" THEN [kind |-> "return", value |-> <<>>]
    ELSE IF ~o.hasResults THEN [kind |-> "return", value |-> <<>>]
    ELSE IF \E i \in 1..Len(o.results) : PageTitleList(o.results[i]) = <<>>
         THEN [kind |-> "raise", value |-> <<>>]
    ELSE [kind |-> "return",
          value |-> [i \in 1..Len(o.results) |-> PageTitle(o.results[i])]]

(* -------------------------- generate_briefing ------------------------- *)
SummaryTexts == {"S1"}

HFOutcomes ==
    { [kind |-> "exception", summary |-> ""],
      [kind |-> "non200",    summary |-> ""],
      [kind |-> "malformed", summary |-> ""] }
    \cup { [kind |-> "ok", summary |-> s] : s \in SummaryTexts }

\* ', '.join(attendees) (line 115) is evaluated before the try block and
\* raises TypeError when an element is None.
JoinRaises(atts) == \E i \in 1..Len(atts) : atts[i] = None

\* The value returned once the request was sent (lines 132-148).
BriefingResult(h) ==
    IF h.kind = "ok" THEN h.summary ELSE Sentinel

DocsEmpty_Never(docs) == FALSE

\* `if not all_context_docs` (line 295).
DocsEmpty(docs) == docs = <<>>

\* all_context_docs after the two extend calls (lines 289, 293).
MergeDocs(drive, notion) == drive \o notion

(* ------------------------- send_slack_message ------------------------- *)
SlackOutcomes == {"exception", "ok", "not_ok"}

SlackUsable_UserOnly(e) == e.present /\ Truthy(e.userId)

\* `if slack_token and slack_user_id` (line 319).
SlackUsable(e) == e.present /\ Truthy(e.accessToken) /\ Truthy(e.userId)

\* `if not user_id` negated (line 347).
SlackSends(user_id) == Truthy(user_id)

(* ------------------------- validate_session --------------------------- *)
\* What requests.post(validate url) can produce; body is response.json():
\* "empty" is {}, "noToken" a dict without 'token', "noLoginIds" one whose
\* token has no first login id, "full" one with token.loginIds[0].
DescopeOutcomes ==
    { [kind |-> "exception", body |-> "empty"],
      [kind |-> "non200",    body |-> "empty"] }
    \cup { [kind |-> "ok", body |-> b] : b \in {"empty", "noToken", "noLoginIds", "full"} }

\* validate_descope_session: no try block, so an exception of the call
\* leaves it; otherwise None or the decoded body.
ValidateDescopeSession(o) ==
    IF o.kind = "exception" THEN [kind |-> "raise", body |-> "empty"]
    ELSE IF o.kind = "non200" THEN [kind |-> "None", body |-> "empty"]
    ELSE [kind |-> "dict", body |-> o.body]

NoResponse == [status |-> 0, error |-> "", user |-> ""]
ServerError == [status |-> 500, error |-> "Internal Server Error", user |-> ""]

\* The response of the /validate-session handler for the result r of
\* validate_descope_session (lines 181-188); an uncaught exception is
\* answered by the framework with 500.
ValidateResponse(r) ==
    IF r.kind = "raise" THEN ServerError
    ELSE IF r.kind = "None" \/ r.body = "empty"
         THEN [status |-> 401, error |-> "Invalid session", user |-> ""]
    ELSE IF r.body \in {"noToken", "noLoginIds"} THEN ServerError
    ELSE [status |-> 200, error |-> "", user |-> "user1"]

(* ------------------------------ state --------------------------------- *)
LoginIds == {"u1"}

Init ==
    /\ pc = "idle"
    /\ op = "none"
    /\ login_id = None
    /\ tokens = [kind |-> "unset", d |-> EmptyDict]
    /\ meetings = <<>>
    /\ title = <<>>
    /\ attendees = <<>>
    /\ search_query = <<>>
    /\ drive_content = <<>>
    /\ notion_content = <<>>
    /\ all_context_docs = <<>>
    /\ briefing = None
    /\ slack_user_id = None
    /\ session_token = None
    /\ log = <<>>
    /\ outcome = ""
    /\ raisedIn = ""
    /\ http = NoResponse

Call(ep, arg) == log' = Append(log, [ep |-> ep, arg |-> arg])

\* run_catalyst_for_user returns (o names the return statement) or an
\* exception leaves it (o = "raised", f the function that raised);
\* trigger_agent then answers (line 340), or the framework answers 500.
EndRun(o, f) ==
    /\ pc' = "end"
    /\ outcome' = o
    /\ raisedIn' = f
    /\ http' = IF o = "raised" THEN ServerError
               ELSE [status |-> 200, error |-> "", user |-> login_id]

\* `if not all_context_docs: return` (lines 295-297), else go on to line 300.
CheckDocs(docs) ==
    IF DocsEmpty(docs) THEN EndRun("no_docs", "")
    ELSE pc' = "briefing1" /\ UNCHANGED <<outcome, raisedIn, http>>

Extend_Prepend(list, more) == more \o list

\* list.extend (lines 289, 293).
Extend(list, more) == list \o more

(* ------------------------------ actions ------------------------------- *)
\* POST /trigger-agent (lines 332-340), up to the call of run_catalyst_for_user.
TriggerAgent ==
    /\ pc = "idle"
    /\ \E l \in LoginIds \cup {None, ""} :
         /\ login_id' = l
         /\ IF ~Truthy(l)
            THEN /\ op' = "trigger"
                 /\ pc' = "end"
                 /\ outcome' = "returned"
                 /\ http' = [status |-> 400, error |-> "loginId is required", user |-> ""]
            ELSE /\ op' = "run"
                 /\ pc' = "get_tokens"
                 /\ UNCHANGED <<outcome, http>>
    /\ UNCHANGED <<tokens, meetings, title, attendees, search_query, drive_content,
                   notion_content, all_context_docs, briefing, slack_user_id,
                   session_token, log, raisedIn>>

\* Lines 258-270.
GetTokens ==
    /\ pc = "get_tokens"
    /\ \E v \in VaultOutcomes :
         LET r == GetTokensForUser(v) IN
         /\ Call("vault", login_id)
         /\ IF r.kind = "raise"
            THEN UNCHANGED tokens /\ EndRun("raised", "get_tokens_for_user")
            ELSE /\ tokens' = r
                 /\ IF NotTokens(r) THEN EndRun("no_tokens", "")
                    ELSE IF ~HasGoogle(r) THEN EndRun("no_google", "")
                    ELSE pc' = "get_meetings" /\ UNCHANGED <<outcome, raisedIn, http>>
    /\ UNCHANGED <<op, login_id, meetings, title, attendees, search_query, drive_content,
                   notion_content, all_context_docs, briefing, slack_user_id,
                   session_token>>

\* Lines 272-285.
GetMeetings ==
    /\ pc = "get_meetings"
    /\ \E c \in CalendarOutcomes :
         LET ms == GetUpcomingMeetings(c) IN
         /\ Call("calendar", DictGet(tokens.d, "google"))
         /\ meetings' = ms
         /\ IF ms = <<>>
            THEN /\ EndRun("no_meetings", "")
                 /\ UNCHANGED <<title, attendees, search_query>>
            ELSE /\ title' = EventTitle(NextMeeting(ms))
                 /\ attendees' = EventAttendees(NextMeeting(ms))
                 /\ search_query' = FirstToken(title')
                 /\ pc' = "search_drive"
                 /\ UNCHANGED <<outcome, raisedIn, http>>
    /\ UNCHANGED <<op, login_id, tokens, drive_content, notion_content,
                   all_context_docs, briefing, slack_user_id, session_token>>

\* Lines 287-289, and 295-297 when the wiki is not connected.
SearchDriveStep ==
    /\ pc = "search_drive"
    /\ HasGoogle(tokens)
    /\ \E o \in DriveOutcomes :
         /\ Call("drive", [token |-> DictGet(tokens.d, "google"), query |-> search_query])
         /\ drive_content' = SearchDrive(o)
         /\ all_context_docs' = Extend(all_context_docs, drive_content')
         /\ IF HasNotion(tokens)
            THEN pc' = "search_notion" /\ UNCHANGED <<outcome, raisedIn, http>>
            ELSE CheckDocs(all_context_docs')
    /\ UNCHANGED <<op, login_id, tokens, meetings, title, attendees, search_query,
                   notion_content, briefing, slack_user_id, session_token>>

\* Lines 291-297.
SearchNotionStep ==
    /\ pc = "search_notion"
    /\ \E o \in NotionOutcomes :
         LET r == SearchNotion(o) IN
         /\ Call("notion", [token |-> DictGet(tokens.d, "notion"), query |-> search_query])
         /\ IF r.kind = "raise"
            THEN /\ EndRun("raised", "search_notion_and_get_content")
                 /\ UNCHANGED <<notion_content, all_context_docs>>
            ELSE /\ notion_content' = r.value
                 /\ all_context_docs' = Extend(all_context_docs, r.value)
                 /\ CheckDocs(all_context_docs')
    /\ UNCHANGED <<op, login_id, tokens, meetings, title, attendees, search_query,
                   drive_content, briefing, slack_user_id, session_token>>

\* One call of generate_briefing(title, attendees, all_context_docs)
\* (lines 108-148), after which the run goes on at `next`.
GenerateBriefingCall(next) ==
    /\ IF JoinRaises(attendees)
       THEN /\ EndRun("raised", "generate_briefing")
            /\ UNCHANGED <<briefing, log>>
       ELSE \E h \in HFOutcomes :
              /\ Call("hf", [title |-> title, attendees |-> attendees,
                             docs |-> all_context_docs])
              /\ briefing' = BriefingResult(h)
              /\ pc' = next
              /\ UNCHANGED <<outcome, raisedIn, http>>
    /\ UNCHANGED <<op, login_id, tokens, meetings, title, attendees, search_query,
                   drive_content, notion_content, all_context_docs, slack_user_id,
                   session_token>>

\* Lines 300-304.
GenerateBriefing1 ==
    /\ pc = "briefing1"
    /\ GenerateBriefingCall("briefing2")

\* Lines 307-311: the same block a second time.
GenerateBriefing2 ==
    /\ pc = "briefing2"
    /\ GenerateBriefingCall("notify")

\* Lines 314-329, with send_slack_message (lines 343-370) when it is called.
Notify ==
    /\ pc = "notify"
    /\ LET e == DictGet(tokens.d, "slack") IN
       IF e.present
       THEN /\ slack_user_id' = e.userId
            /\ IF SlackUsable(e)
               THEN IF SlackSends(e.userId)
                    THEN \E s \in SlackOutcomes :
                           /\ Call("slack", [token |-> e.accessToken, channel |-> e.userId,
                                             text |-> briefing])
                           /\ IF s = "exception"
                              THEN EndRun("raised", "send_slack_message")
                              ELSE EndRun("complete", "")
                    ELSE EndRun("complete", "") /\ UNCHANGED log
               ELSE EndRun("complete", "") /\ UNCHANGED log
       ELSE EndRun("complete", "") /\ UNCHANGED <<log, slack_user_id>>
    /\ UNCHANGED <<op, login_id, tokens, meetings, title, attendees, search_query,
                   drive_content, notion_content, all_context_docs, briefing,
                   session_token>>

\* A direct call send_slack_message(access_token, user_id, message_text).
SendSlackMessage ==
    /\ pc = "idle"
    /\ \E tok \in {"tok", ""}, uid \in {None, "", "U1"}, s \in SlackOutcomes :
         /\ op' = "send_slack_message"
         /\ slack_user_id' = uid
         /\ pc' = "end"
         /\ IF SlackSends(uid)
            THEN /\ Call("slack", [token |-> tok, channel |-> uid, text |-> "hello"])
                 /\ outcome' = IF s = "exception" THEN "raised" ELSE "returned"
                 /\ raisedIn' = IF s = "exception" THEN "send_slack_message" ELSE ""
            ELSE /\ UNCHANGED log
                 /\ outcome' = "returned"
                 /\ UNCHANGED raisedIn
    /\ UNCHANGED <<login_id, tokens, meetings, title, attendees, search_query,
                   drive_content, notion_content, all_context_docs, briefing,
                   session_token, http>>

\* POST /validate-session (lines 173-188).
ValidateSession ==
    /\ pc = "idle"
    /\ \E t \in {None, "", "sess"}, o \in DescopeOutcomes :
         LET r == ValidateDescopeSession(o) IN
         /\ op' = "validate"
         /\ session_token' = t
         /\ pc' = "end"
         /\ IF ~Truthy(t)
            THEN /\ http' = [status |-> 400, error |-> "Session token is missing", user |-> ""]
                 /\ outcome' = "returned"
                 /\ UNCHANGED <<log, raisedIn>>
            ELSE /\ Call("descope", [kind |-> o.kind, body |-> o.body])
                 /\ http' = ValidateResponse(r)
                 /\ outcome' = IF http'.status = 500 THEN "raised" ELSE "returned"
                 /\ raisedIn' = IF r.kind = "raise" THEN "validate_descope_session"
                                ELSE IF http'.status = 500 THEN "validate_session"
                                ELSE ""
    /\ UNCHANGED <<login_id, tokens, meetings, title, attendees, search_query,
                   drive_content, notion_content, all_context_docs, briefing,
                   slack_user_id>>

Next ==
    \/ TriggerAgent
    \/ GetTokens
    \/ GetMeetings
    \/ SearchDriveStep
    \/ SearchNotionStep
    \/ GenerateBriefing1
    \/ GenerateBriefing2
    \/ Notify
    \/ SendSlackMessage
    \/ ValidateSession

Spec == Init /\ [][Next]_vars

(* ------------------------------ claims -------------------------------- *)
IsRun == op = "run"
Ended == pc = "end"
OnlyCalls(eps) == \A i \in 1..Len(log) : log[i].ep \in eps
NoCalendarEntry == "google" \notin DOMAIN tokens.d
WikiEntry == "notion" \in DOMAIN tokens.d
ChatMissing ==
    \/ "slack" \notin DOMAIN tokens.d
    \/ ~Truthy(tokens.d["slack"].accessToken)
    \/ ~Truthy(tokens.d["slack"].userId)
\* The run has a calendar token, a meeting and a context document.
ReachesBriefing ==
    /\ ~NoCalendarEntry
    /\ meetings # <<>>
    /\ drive_content \o notion_content # <<>>
    /\ raisedIn # "search_notion_and_get_content"
\* A meeting was selected and both searches are over.
SearchOver == IsRun /\ meetings # <<>> /\ pc \notin {"search_drive", "search_notion"}

\* C1: a finished run that reached the briefing step called the
\* summarization endpoint exactly once, any other finished run never, and
\* no run calls it a second time.
C1_SummarizationOnce ==
    IsRun =>
        /\ Count("hf") <= 1
        /\ (Ended /\ outcome = "complete") => Count("hf") = 1
        /\ (Ended /\ ~ReachesBriefing) => Count("hf") = 0

\* C2: once the token fetch is over and there is no 'google' entry (fetch
\* failed, empty mapping, mapping without 'google'), the run has ended and
\* the vault call is the only upstream call it made.
C2_NoCalendarAborts ==
    (IsRun /\ pc # "get_tokens" /\ NoCalendarEntry) =>
        /\ Ended
        /\ outcome \in {"no_tokens", "no_google", "raised"}
        /\ OnlyCalls({"vault"})

C2_Witness ==
    /\ IsRun /\ Ended /\ outcome = "no_google"
    /\ tokens.kind = "dict" /\ WikiEntry /\ NoCalendarEntry

\* C3: with a calendar token, an empty meeting list ends the run with no
\* drive, wiki, summarization or chat call; a non-empty one makes element 0
\* the meeting whose title and attendees every search, briefing and
\* notification uses.
C3_FirstMeetingOrAbort ==
    (IsRun /\ ~NoCalendarEntry /\ pc # "get_meetings") =>
        IF meetings = <<>>
        THEN /\ Ended /\ outcome = "no_meetings"
             /\ OnlyCalls({"vault", "calendar"})
        ELSE /\ title = EventTitle(meetings[1])
             /\ attendees = EventAttendees(meetings[1])
             /\ \A i \in 1..Len(log) :
                  /\ log[i].ep \in {"drive", "notion"} =>
                       log[i].arg.query = FirstToken(EventTitle(meetings[1]))
                  /\ log[i].ep = "hf" =>
                       /\ log[i].arg.title = EventTitle(meetings[1])
                       /\ log[i].arg.attendees = EventAttendees(meetings[1])
                  /\ log[i].ep = "slack" => log[i].arg.text = briefing

C3_Witness ==
    /\ IsRun /\ outcome = "complete" /\ Count("slack") = 1
    /\ Len(meetings) >= 2
    /\ EventTitle(meetings[1]) # EventTitle(meetings[Len(meetings)])

\* C4: the context list handed to generate_briefing is the drive results
\* followed by the wiki results, each in returned order; once a meeting is
\* selected and the searches are over the drive was searched once, and the
\* wiki was searched (once) exactly when there is a 'notion' entry.
C4_MergeOrder ==
    /\ \A i \in 1..Len(log) :
         log[i].ep = "hf" => log[i].arg.docs = drive_content \o notion_content
    /\ Count("notion") > 0 => WikiEntry
    /\ SearchOver =>
         /\ Count("drive") = 1
         /\ Count("notion") = (IF WikiEntry THEN 1 ELSE 0)

C4_Witness ==
    /\ IsRun /\ Count("hf") > 0
    /\ Len(drive_content) = 2 /\ drive_content[1] # drive_content[2]
    /\ notion_content # <<>>

\* C5: when both searches have returned and the merged results are empty,
\* the run has ended at "nothing to summarize" with no summarization call
\* and no chat call.
C5_EmptyDocsAbort ==
    ( /\ SearchOver
      /\ raisedIn # "search_notion_and_get_content"
      /\ drive_content \o notion_content = <<>> ) =>
        /\ Ended /\ outcome = "no_docs"
        /\ Count("hf") = 0
        /\ Count("slack") = 0

C5_Witness ==
    /\ IsRun /\ Ended /\ outcome = "no_docs"
    /\ Count("drive") = 1 /\ Count("notion") = 1

C7_BriefingNeverRaises ==
    /\ raisedIn # "generate_briefing"
    /\ briefing \in SummaryTexts \cup {Sentinel, None}

\* C8: /validate-session answers 400 to a missing token, 200 with the user
\* when the identity provider accepts the token and names a login id, and
\* 401 "Invalid session" for every other outcome of the validation.
C8_ValidateSessionContract ==
    (op = "validate" /\ Ended) =>
        IF ~Truthy(session_token) THEN http.status = 400
        ELSE IF log[1].arg.kind = "ok" /\ log[1].arg.body = "full"
             THEN http.status = 200 /\ http.user # ""
        ELSE http.status = 401 /\ http.error = "Invalid session"

\* C9: no failure of a document provider ends the run: no exception leaves
\* a search, and a run whose drive search returned documents reaches the
\* briefing step whatever the wiki search met.
C9_ProviderFailureNonFatal ==
    /\ raisedIn \notin {"search_drive_and_get_content", "search_notion_and_get_content"}
    /\ (IsRun /\ Ended /\ drive_content # <<>>) =>
         (Count("hf") > 0 \/ raisedIn = "generate_briefing")

\* C10: get_tokens_for_user never raises, whatever the vault answers, and
\* a run with a calendar entry is never ended for want of a wiki or chat
\* entry.
C10_GetTokensNeverRaises ==
    /\ raisedIn # "get_tokens_for_user"
    /\ (IsRun /\ ~NoCalendarEntry) => outcome \notin {"no_tokens", "no_google"}

====
